---- MODULE Spec2Model ----
(***************************************************************************)
(* Model of src/lib/languages/load.ts: the languageData store, the card    *)
(* loader (fetchAndFilterCards, createCards, loadCards, loadSingleCard,    *)
(* getStoredCards) and the language selection (getStoredLanguage,          *)
(* setLanguage).                                                           *)
(*                                                                         *)
(* Card arrays are heap objects: the store and the snapshot a pending      *)
(* loadSingleCard holds refer to arrays by reference, and loadSingleCard   *)
(* assigns into the array in place.  An array is named by the number of    *)
(* the createCards call that built it.                                     *)
(*                                                                         *)
(* A call of loadCards or loadSingleCard takes four kinds of step: it      *)
(* starts (and suspends at its await), each of its two fetches settles,    *)
(* and it resumes after both settled and runs to its end without           *)
(* suspending again.  createCards never returns null, since                *)
(* fetchAndFilterCards catches every failure, so the early returns on a    *)
(* null record are not steps of the model.  cardIndex is a non-negative    *)
(* integer.  The localStorage copy the store's subscriber writes equals    *)
(* the store after every set and is left out, as is registerLocales.       *)
(***************************************************************************)
EXTENDS Integers, Sequences, FiniteSets, TLC

\* ------------------------------------------------------------------ bounds
\* Largest cardIndex a caller passes to loadSingleCard (0-based).
MaxIndex == 1
\* Longest card list the filter is checked on.
MaxLen == 2

\* --------------------------------------------------------------- constants
\* Number.MAX_SAFE_INTEGER (2^53 - 1) stands for "no limit"; the model uses
\* the largest integer TLC represents, which exceeds every length as well.
MAX_SAFE_INTEGER == 2147483647

FI == "fi"
EN == "en"
\* Object.values(Language), in declaration order.
LanguageValues == <<FI, EN>>
Languages == {LanguageValues[i] : i \in 1..Len(LanguageValues)}

UNTAGGED == "untagged"
Tags == {UNTAGGED, "a", "b"}

\* The two callers whose calls may overlap; each makes one call of loadCards
\* or loadSingleCard.  Calls are numbered in the order they start.
Callers == {"c1", "c2"}
\* Values Math.random() may return.
Seeds == {0, 1}

\* A card: its position in the fetched document and its tags.  The content
\* is language specific and follows from the deck the card is in.
Card(pos, tags) == [id |-> pos, tags |-> tags]
\* An array slot that was never assigned (reads as undefined).
Hole == [id |-> 0, tags |-> {}]

Min(a, b) == IF a < b THEN a ELSE b
Max(a, b) == IF a > b THEN a ELSE b

\* response.json().cards for a document given as the sequence of its tag sets.
CardsOf(doc) == [i \in 1..Len(doc) |-> Card(i, doc[i])]

\* ------------------------------------------------------------------ filter
\* cards.filter(...) of lines 74-78, for one card.
IsIncluded(card, includedTags) ==
    \/ \E tag \in card.tags : tag \in includedTags
    \/ (UNTAGGED \in includedTags /\ Cardinality(card.tags) = 0)

\* Mutant: the exclusion filter without its clause for untagged cards.
IsNotExcludedByTagOnly(card, excludedTags) ==
    ~(\E tag \in card.tags : tag \in excludedTags)

\* includedCards.filter(...) of lines 81-85, for one card.
IsNotExcluded(card, excludedTags) ==
    /\ ~(\E tag \in card.tags : tag \in excludedTags)
    /\ ~(UNTAGGED \in excludedTags /\ Cardinality(card.tags) = 0)

includedCards(cards, includedTags) ==
    SelectSeq(cards, LAMBDA card : IsIncluded(card, includedTags))

\* Mutant: the filters removing rejected cards from the list while walking
\* it, which skips the card after each removed one.
RECURSIVE RemoveWhileWalking(_, _, _)
RemoveWhileWalking(cards, includedTags, excludedTags) ==
    IF cards = <<>> THEN <<>>
    ELSE IF IsIncluded(Head(cards), includedTags) /\ IsNotExcluded(Head(cards), excludedTags)
    THEN <<Head(cards)>> \o RemoveWhileWalking(Tail(cards), includedTags, excludedTags)
    ELSE IF Len(cards) = 1 THEN <<>>
    ELSE <<cards[2]>> \o RemoveWhileWalking(Tail(Tail(cards)), includedTags, excludedTags)

filteredCards(cards, includedTags, excludedTags) ==
    SelectSeq(includedCards(cards, includedTags),
              LAMBDA card : IsNotExcluded(card, excludedTags))

\* ----------------------------------------------------------------- shuffle
\* seededShuffle of $lib/utils/seed: a permutation that depends on the seed
\* and on the length of the list only.  Seed s rotates the list left by s.
ShufflePermutation(seed, n) == [i \in 1..n |-> ((i - 1 + seed) % n) + 1]

seededShuffle(list, seed) ==
    [i \in 1..Len(list) |-> list[ShufflePermutation(seed, Len(list))[i]]]

\* ------------------------------------------------------------------- fetch
\* fetchAndFilterCards: the value its promise resolves to.  ok = FALSE is a
\* fetch or parse failure, which the catch turns into [].
fetchAndFilterCards(doc, includedTags, excludedTags, seed, ok) ==
    IF ok
    THEN seededShuffle(filteredCards(CardsOf(doc), includedTags, excludedTags), seed)
    ELSE <<>>

\* Mutant: a seed drawn per language instead of one per call.
SeedPerLanguage(seed, language) == IF language = FI THEN seed ELSE 1 - seed

\* The seed createCards hands to the fetch of one language: the one seed
\* drawn for the call.
SeedFor(seed, language) == seed

\* Array.prototype.slice(0, cardAmount).
Slice(list, cardAmount) == SubSeq(list, 1, Min(cardAmount, Len(list)))

\* The record createCards returns, given what the two fetches resolved to.
createCards(cardAmount, fetched) ==
    [l \in Languages |-> Slice(fetched[l], cardAmount)]

\* The value loadCards returns for the record cardsData.
RECURSIVE ReduceMin(_, _, _)
ReduceMin(lengths, i, min) ==
    IF i > Len(lengths) THEN min
    ELSE ReduceMin(lengths, i + 1, Min(min, lengths[i]))

\* Mutant: the reduce seeded with 0 instead of Number.MAX_SAFE_INTEGER.
loadCardsResultFromZero(cardsData) ==
    LET lengths == [i \in 1..Len(LanguageValues) |-> Len(cardsData[LanguageValues[i]])]
        min == ReduceMin(lengths, 1, 0)
    IN  IF min = 0 THEN 0 ELSE min

loadCardsResult(cardsData) ==
    LET lengths == [i \in 1..Len(LanguageValues) |-> Len(cardsData[LanguageValues[i]])]
        min == ReduceMin(lengths, 1, MAX_SAFE_INTEGER)
    IN  IF min = 0 THEN 0 ELSE min

\* Mutant: cards.splice(cardIndex, 0, card), which inserts instead of
\* replacing.
ArrayInsert(cards, cardIndex, card) ==
    IF cardIndex >= Len(cards) THEN cards \o <<card>>
    ELSE SubSeq(cards, 1, cardIndex) \o <<card>> \o SubSeq(cards, cardIndex + 1, Len(cards))

\* cards[cardIndex] = card on a JavaScript array (0-based; an index past the
\* end extends the array, leaving holes).
ArrayAssign(cards, cardIndex, card) ==
    [i \in 1..Max(Len(cards), cardIndex + 1) |->
        IF i = cardIndex + 1 THEN card
        ELSE IF i <= Len(cards) THEN cards[i] ELSE Hole]

\* ------------------------------------------------------------------- state
VARIABLES
    source,        \* per language, the document its card URL serves
    languageData,  \* the store: per language, its LanguageData entry
    heap,          \* the card arrays the store and the snapshots refer to
    calls,         \* per caller, its call of loadCards / loadSingleCard
    nCalls,        \* calls started so far
    lastWrite,     \* number of the call whose languageData.set ran last
    navigatorLocale,   \* what getLocaleFromNavigator() returns, as subtags
    selectedLanguage,  \* sessionStorage item "selectedLanguage"
    locale,            \* the svelte-i18n $locale store
    storedLanguage,    \* what the last getStoredLanguage() call returned
    givenCards,        \* filter: the card list given
    givenIncluded,     \* filter: the inclusion tags given
    givenExcluded,     \* filter: the exclusion tags given
    filtered,          \* filter: the list after one pass
    refiltered,        \* filter: the list after a second pass over it
    passes             \* filter: passes made so far

loaderVars == <<source, languageData, heap, calls, nCalls, lastWrite>>
languageVars == <<navigatorLocale, selectedLanguage, locale, storedLanguage>>
filterVars == <<givenCards, givenIncluded, givenExcluded, filtered, refiltered, passes>>
vars == <<loaderVars, languageVars, filterVars>>

\* A reference to no array (the entry has no cards field).
NoCards == -1
\* The arrays parsed from localStorage when the module was loaded.
Restored == 0
\* languageData[lang] of the store {} : no entry at all.
NoEntry == [exists |-> FALSE, cards |-> NoCards]
EmptyStore == [l \in Languages |-> NoEntry]
NoArrays == [l \in Languages |-> <<>>]

IdleCall ==
    [kind |-> "none", pc |-> "idle", no |-> 0, cardIndex |-> 0,
     includedTags |-> {}, excludedTags |-> {}, seed |-> 0,
     pending |-> {}, fetched |-> NoArrays, failed |-> {},
     currentData |-> EmptyStore, result |-> 0]

\* A call that returned: its kind, its number, which of its fetches failed
\* and its return value remain.
DoneCall(call, result) ==
    [IdleCall EXCEPT !.kind = call.kind, !.pc = "done", !.no = call.no,
                     !.failed = call.failed, !.result = result]

\* The documents a card URL may serve.
ShortDocument == <<{"a"}, {}>>
LongDocument == <<{"b"}, {}, {"b"}>>
\* What the two card URLs serve: parallel documents, or documents that differ.
Sources ==
    { [l \in Languages |-> LongDocument],
      [l \in Languages |-> IF l = FI THEN ShortDocument ELSE LongDocument] }

\* The tag selections (includedTags, excludedTags) a caller passes.
EveryCard == <<{"a", "b", UNTAGGED}, {}>>
TagSelections == { EveryCard, <<{"b", UNTAGGED}, {UNTAGGED}>> }

\* getStoredCards(lang): get(languageData)[lang]?.cards || null.  An empty
\* array is truthy, so only a missing entry or a missing cards field is null.
getStoredCards(lang) ==
    LET entry == languageData[lang]
    IN  IF entry.exists /\ entry.cards # NoCards
        THEN [isNull |-> FALSE, cards |-> heap[entry.cards][lang]]
        ELSE [isNull |-> TRUE, cards |-> <<>>]

\* Arrays nothing refers to any more are dropped (garbage collection).
Live(store, cs) ==
    {store[l].cards : l \in Languages}
        \cup {cs[c].currentData[l].cards : c \in Callers, l \in Languages}

Collect(h, store, cs) ==
    [n \in Restored..Cardinality(Callers) |-> IF n \in Live(store, cs) THEN h[n] ELSE NoArrays]

\* The store loadCards sets: every language gets an entry whose cards are
\* the arrays of this call.
LoadedStore(no) == [l \in Languages |-> [exists |-> TRUE, cards |-> no]]

\* The decks an earlier session persisted: every card, in document order.
RestoredCards ==
    [l \in Languages |->
        fetchAndFilterCards(source[l], EveryCard[1], EveryCard[2], 0, TRUE)]

\* The store as the module's load leaves it: {} when localStorage holds
\* nothing, or else the decks an earlier session persisted.
LoaderInit ==
    /\ source \in Sources
    /\ \/ /\ languageData = EmptyStore
          /\ heap = [n \in Restored..Cardinality(Callers) |-> NoArrays]
       \/ /\ languageData = LoadedStore(Restored)
          /\ heap = [n \in Restored..Cardinality(Callers) |->
                       IF n = Restored THEN RestoredCards ELSE NoArrays]
    /\ calls = [c \in Callers |-> IdleCall]
    /\ nCalls = 0
    /\ lastWrite = 0

\* ----------------------------------------------------------------- actions
\* loadCards(includedTags, excludedTags) up to the await of createCards:
\* the seed is drawn and both fetches are started.
StartLoadCards(c, selection, seed) ==
    /\ calls[c].pc = "idle"
    /\ nCalls' = nCalls + 1
    /\ calls' = [calls EXCEPT ![c] =
          [IdleCall EXCEPT !.kind = "loadCards", !.pc = "fetching",
                           !.no = nCalls + 1,
                           !.includedTags = selection[1],
                           !.excludedTags = selection[2],
                           !.seed = seed, !.pending = Languages]]
    /\ UNCHANGED <<source, languageData, heap, lastWrite, languageVars, filterVars>>

\* loadSingleCard(cardIndex, includedTags, excludedTags) up to the await of
\* createCards: the store is read into currentData first.
StartLoadSingleCard(c, cardIndex, selection, seed) ==
    /\ calls[c].pc = "idle"
    /\ nCalls' = nCalls + 1
    /\ calls' = [calls EXCEPT ![c] =
          [IdleCall EXCEPT !.kind = "loadSingleCard", !.pc = "fetching",
                           !.no = nCalls + 1, !.cardIndex = cardIndex,
                           !.includedTags = selection[1],
                           !.excludedTags = selection[2],
                           !.seed = seed, !.pending = Languages,
                           !.currentData = languageData]]
    /\ UNCHANGED <<source, languageData, heap, lastWrite, languageVars, filterVars>>

\* Mutant: loadCards storing the deck of each language as its fetch settles.
FetchSettlesAndStores(c, language, ok) ==
    LET call == calls[c]
        result == fetchAndFilterCards(source[language], call.includedTags,
                                      call.excludedTags,
                                      SeedFor(call.seed, language), ok)
    IN  /\ call.pc = "fetching"
        /\ language \in call.pending
        /\ calls' = [calls EXCEPT ![c] =
              [call EXCEPT !.pending = @ \ {language},
                           !.failed = IF ok THEN @ ELSE @ \cup {language},
                           !.fetched[language] = result]]
        /\ IF call.kind = "loadCards"
           THEN /\ languageData' = [languageData EXCEPT ![language] =
                                       [exists |-> TRUE, cards |-> call.no]]
                /\ heap' = [heap EXCEPT ![call.no][language] = result]
           ELSE UNCHANGED <<languageData, heap>>
        /\ UNCHANGED <<source, nCalls, lastWrite, languageVars, filterVars>>

\* One fetchAndFilterCards of a call settles: with the filtered, shuffled
\* cards, or after a fetch or parse failure with [].
FetchSettles(c, language, ok) ==
    LET call == calls[c]
    IN  /\ call.pc = "fetching"
        /\ language \in call.pending
        /\ calls' = [calls EXCEPT ![c] =
              [call EXCEPT
                 !.pending = @ \ {language},
                 !.failed = IF ok THEN @ ELSE @ \cup {language},
                 !.fetched[language] =
                     fetchAndFilterCards(source[language], call.includedTags,
                                         call.excludedTags,
                                         SeedFor(call.seed, language), ok)]]
        /\ UNCHANGED <<source, languageData, heap, nCalls, lastWrite, languageVars, filterVars>>

\* Mutant: loadCards returning 0 before the set when a deck is empty.
LoadCardsCommitUnlessEmpty(c) ==
    LET call == calls[c]
        cardsData == createCards(MAX_SAFE_INTEGER, call.fetched)
        cs == [calls EXCEPT ![c] = DoneCall(call, loadCardsResult(cardsData))]
        stored == loadCardsResult(cardsData) # 0
        store == IF stored THEN LoadedStore(call.no) ELSE languageData
    IN  /\ call.pc = "fetching"
        /\ call.kind = "loadCards"
        /\ call.pending = {}
        /\ languageData' = store
        /\ heap' = Collect(IF stored THEN [heap EXCEPT ![call.no] = cardsData] ELSE heap,
                           store, cs)
        /\ calls' = cs
        /\ lastWrite' = IF stored THEN call.no ELSE lastWrite
        /\ UNCHANGED <<source, nCalls, languageVars, filterVars>>

\* loadCards after both fetches settled: createCards returns its record,
\* languageData.set(cardsData), and the minimum length is returned.
LoadCardsCommit(c) ==
    LET call == calls[c]
        cardsData == createCards(MAX_SAFE_INTEGER, call.fetched)
        cs == [calls EXCEPT ![c] = DoneCall(call, loadCardsResult(cardsData))]
    IN  /\ call.pc = "fetching"
        /\ call.kind = "loadCards"
        /\ call.pending = {}
        /\ languageData' = LoadedStore(call.no)
        /\ heap' = Collect([heap EXCEPT ![call.no] = cardsData],
                           LoadedStore(call.no), cs)
        /\ calls' = cs
        /\ lastWrite' = call.no
        /\ UNCHANGED <<source, nCalls, languageVars, filterVars>>

\* Mutant: the assignment made without the guard on newLangCard.
PatchedCardsUnguarded(cards, cardIndex, newCards) ==
    ArrayAssign(cards, cardIndex, IF Len(newCards) > 0 THEN newCards[1] ELSE Hole)

\* The array of one language after the loop body of loadSingleCard.
PatchedCards(cards, cardIndex, newCards) ==
    IF Len(newCards) > 0 THEN ArrayAssign(cards, cardIndex, newCards[1]) ELSE cards

\* updatedData[lang] = { ...langData, language: lang }.
UpdatedEntry(langData) == [exists |-> TRUE, cards |-> langData.cards]

\* Mutant: loadSingleCard patching the store as it is at the write-back
\* instead of the snapshot it took before the await.
LoadSingleCardCommitOnCurrent(c) ==
    LET call == calls[c]
        newCardData == createCards(1, call.fetched)
        updatedData == [l \in Languages |-> UpdatedEntry(languageData[l])]
        patched == [n \in Restored..Cardinality(Callers) |->
                      [l \in Languages |->
                          IF languageData[l].cards = n
                          THEN PatchedCards(heap[n][l], call.cardIndex, newCardData[l])
                          ELSE heap[n][l]]]
        cs == [calls EXCEPT ![c] = DoneCall(call, 0)]
    IN  /\ call.pc = "fetching"
        /\ call.kind = "loadSingleCard"
        /\ call.pending = {}
        /\ languageData' = updatedData
        /\ heap' = Collect(patched, updatedData, cs)
        /\ calls' = cs
        /\ lastWrite' = call.no
        /\ UNCHANGED <<source, nCalls, languageVars, filterVars>>

\* loadSingleCard after both fetches settled: the first new card of each
\* language is assigned into the snapshot's array at cardIndex, and the
\* patched snapshot is set as the store.
LoadSingleCardCommit(c) ==
    LET call == calls[c]
        newCardData == createCards(1, call.fetched)
        updatedData == [l \in Languages |-> UpdatedEntry(call.currentData[l])]
        patched == [n \in Restored..Cardinality(Callers) |->
                      [l \in Languages |->
                          IF call.currentData[l].cards = n
                          THEN PatchedCards(heap[n][l], call.cardIndex, newCardData[l])
                          ELSE heap[n][l]]]
        cs == [calls EXCEPT ![c] = DoneCall(call, 0)]
    IN  /\ call.pc = "fetching"
        /\ call.kind = "loadSingleCard"
        /\ call.pending = {}
        /\ languageData' = updatedData
        /\ heap' = Collect(patched, updatedData, cs)
        /\ calls' = cs
        /\ lastWrite' = call.no
        /\ UNCHANGED <<source, nCalls, languageVars, filterVars>>

\* ---------------------------------------------------------------- language
\* sessionStorage.getItem returns null for a key that was never set.
NoItem == "(null)"
\* getLocaleFromNavigator() returns null when the browser names no language.
NoLocale == <<>>
\* Locales a browser may report, split at "-".
NavigatorLocales ==
    { NoLocale, <<"fi">>, <<"fi", "FI">>, <<"en">>, <<"en", "US">>, <<"en", "GB">>,
      <<"de">>, <<"de", "DE">>, <<"sv", "SE">> }
\* Values a caller may pass to setLanguage; only the members of Languages
\* are supported.
LanguageArguments == {FI, EN, "de", "sv", ""}

\* getLocaleFromNavigator()?.split('-')[0]
DetectedLocale(navigator) == IF navigator = NoLocale THEN NoItem ELSE navigator[1]

\* getStoredLanguage(): the session item when it is a non-empty string, else
\* the navigator's language when it is a supported one, else English.
getStoredLanguage ==
    IF selectedLanguage # NoItem /\ selectedLanguage # ""
    THEN selectedLanguage
    ELSE IF DetectedLocale(navigatorLocale) \in Languages
         THEN DetectedLocale(navigatorLocale)
         ELSE EN

\* if (localeCode): a non-empty string is truthy.
IsTruthy(localeCode) == localeCode # ""

\* setLanguage(lang).
setLanguage(lang) ==
    /\ IF IsTruthy(lang)
       THEN /\ selectedLanguage' = lang
            /\ locale' = lang
       ELSE UNCHANGED <<selectedLanguage, locale>>
    /\ UNCHANGED <<navigatorLocale, storedLanguage, loaderVars, filterVars>>

\* A caller reads getStoredLanguage().
ReadStoredLanguage ==
    /\ storedLanguage' = getStoredLanguage
    /\ UNCHANGED <<navigatorLocale, selectedLanguage, locale, loaderVars, filterVars>>

\* init({ fallbackLocale: 'en', initialLocale: ...split('-')[0] }) with an
\* empty sessionStorage.
LanguageInit ==
    /\ navigatorLocale \in NavigatorLocales
    /\ selectedLanguage = NoItem
    /\ locale = DetectedLocale(navigatorLocale)
    /\ storedLanguage = NoItem

\* ------------------------------------------------------------------ filter
\* Tag lists of the givenCards of a document.
CardTags == SUBSET Tags
FilterDocuments == UNION {[1..n -> CardTags] : n \in 0..MaxLen}

FilterInit ==
    /\ givenCards \in {CardsOf(doc) : doc \in FilterDocuments}
    /\ givenIncluded \in SUBSET Tags
    /\ givenExcluded \in SUBSET Tags
    /\ filtered = <<>>
    /\ refiltered = <<>>
    /\ passes = 0

\* The two filters of fetchAndFilterCards run over the card list.
FilterPass ==
    /\ passes = 0
    /\ filtered' = filteredCards(givenCards, givenIncluded, givenExcluded)
    /\ passes' = 1
    /\ UNCHANGED <<givenCards, givenIncluded, givenExcluded, refiltered, loaderVars, languageVars>>

\* The same filters run over their own output.
FilterAgain ==
    /\ passes = 1
    /\ refiltered' = filteredCards(filtered, givenIncluded, givenExcluded)
    /\ passes' = 2
    /\ UNCHANGED <<givenCards, givenIncluded, givenExcluded, filtered, loaderVars, languageVars>>

\* ---------------------------------------------------------- specifications
\* The three parts share no state, so each is checked with the other two at
\* rest in one fixed state.
LoaderAtRest ==
    /\ source = [l \in Languages |-> LongDocument]
    /\ languageData = EmptyStore
    /\ heap = [n \in Restored..Cardinality(Callers) |-> NoArrays]
    /\ calls = [c \in Callers |-> IdleCall]
    /\ nCalls = 0
    /\ lastWrite = 0

LanguageAtRest ==
    /\ navigatorLocale = <<"en", "US">>
    /\ selectedLanguage = NoItem
    /\ locale = EN
    /\ storedLanguage = NoItem

FilterAtRest ==
    /\ givenCards = <<>>
    /\ givenIncluded = {}
    /\ givenExcluded = {}
    /\ filtered = <<>>
    /\ refiltered = <<>>
    /\ passes = 0

Init == LoaderInit /\ LanguageAtRest /\ FilterAtRest

Next ==
    \/ \E c \in Callers, selection \in TagSelections, seed \in Seeds :
          StartLoadCards(c, selection, seed)
    \/ \E c \in Callers, cardIndex \in 0..MaxIndex,
          selection \in TagSelections, seed \in Seeds :
          StartLoadSingleCard(c, cardIndex, selection, seed)
    \/ \E c \in Callers, language \in Languages, ok \in BOOLEAN :
          FetchSettles(c, language, ok)
    \/ \E c \in Callers : LoadCardsCommit(c)
    \/ \E c \in Callers : LoadSingleCardCommit(c)

\* The loader: two callers, each calling loadCards or loadSingleCard once.
Spec == Init /\ [][Next]_vars

LanguageNext ==
    \/ \E lang \in LanguageArguments : setLanguage(lang)
    \/ ReadStoredLanguage

\* The language selection.
InitLanguage == LoaderAtRest /\ LanguageInit /\ FilterAtRest
SpecLanguage == InitLanguage /\ [][LanguageNext]_vars

FilterNext == FilterPass \/ FilterAgain

\* The filter of fetchAndFilterCards as a function of its inputs.
InitFilter == LoaderAtRest /\ LanguageAtRest /\ FilterInit
SpecFilter == InitFilter /\ [][FilterNext]_vars

\* ================================================================== claims
IsIn(card, list) == \E j \in 1..Len(list) : list[j] = card

\* The rule of C4 for one card.
PassesRule(card, included, excluded) ==
    /\ \/ card.tags \cap included # {}
       \/ (UNTAGGED \in included /\ card.tags = {})
    /\ ~ \/ card.tags \cap excluded # {}
         \/ (UNTAGGED \in excluded /\ card.tags = {})

\* C4: the filter keeps a card exactly when it has a tag in the inclusion
\* set (or has no tags and the inclusion set holds the untagged sentinel)
\* and it neither has a tag in the exclusion set nor is untagged while the
\* exclusion set holds the sentinel; the kept cards stay in their order.  So
\* an untagged card is kept when only the inclusion set holds the sentinel
\* and dropped whenever the exclusion set holds it.
C4_FilterRule ==
    passes >= 1 =>
        /\ \A i \in 1..Len(givenCards) :
              IsIn(givenCards[i], filtered)
                  <=> PassesRule(givenCards[i], givenIncluded, givenExcluded)
        /\ \A j, k \in 1..Len(filtered) : j < k => filtered[j].id < filtered[k].id
        /\ \A j \in 1..Len(filtered) : IsIn(filtered[j], givenCards)
        /\ \A i \in 1..Len(givenCards) :
              givenCards[i].tags = {} =>
                  /\ (UNTAGGED \in givenIncluded /\ UNTAGGED \notin givenExcluded)
                        => IsIn(givenCards[i], filtered)
                  /\ UNTAGGED \in givenExcluded => ~IsIn(givenCards[i], filtered)

\* An untagged card dropped only because the exclusion set holds the
\* sentinel, next to a tagged card that is kept.
C4_Witness ==
    /\ passes >= 1
    /\ Len(givenCards) = 2
    /\ givenCards[1].tags = {}
    /\ UNTAGGED \in givenIncluded
    /\ UNTAGGED \in givenExcluded
    /\ filtered = <<givenCards[2]>>

\* C6: filtering the output of the filter again with the same tag sets
\* returns that output unchanged (same cards, same order).
C6_FilterIdempotent == passes = 2 => refiltered = filtered

\* A second pass over a list the first pass shortened.
C6_Witness ==
    /\ passes = 2
    /\ Len(givenCards) = 2
    /\ Len(filtered) = 1
    /\ refiltered = filtered

\* C5: setLanguage with a value that is no supported language changes
\* neither the session item nor the locale, so getStoredLanguage returns
\* what it returned before.
C5_UnsupportedIsNoOp ==
    [][\A lang \in LanguageArguments \ Languages :
          setLanguage(lang) =>
              /\ selectedLanguage' = selectedLanguage
              /\ locale' = locale
              /\ getStoredLanguage' = getStoredLanguage]_vars

\* ------------------------------------------------------- loader claims
Deck(lang) == getStoredCards(lang).cards
HasDeck(lang) == ~getStoredCards(lang).isNull
\* The array a pending loadSingleCard read for a language, as it is now.
SnapshotDeck(call, lang) == heap[call.currentData[lang].cards][lang]
\* The card the fetch of a pending loadSingleCard brought for a language.
Arrived(call, lang) == Len(call.fetched[lang]) > 0
NewCard(call, lang) == call.fetched[lang][1]

\* C1: loadCards returns the minimum of the lengths of the two decks it
\* stored, a failed fetch counting as an empty deck; so it returns 0 when a
\* fetch failed, whatever the other language brought.
C1_LoadCardsReturnsMinimum ==
    [][\A c \in Callers :
          LoadCardsCommit(c) =>
              /\ calls'[c].result = Min(Len(Deck(FI)'), Len(Deck(EN)'))
              /\ \A l \in calls[c].failed : Deck(l)' = <<>>
              /\ calls[c].failed # {} => calls'[c].result = 0]_vars

\* loadCards returned 0 after the Finnish fetch failed and the English one
\* brought cards.
C1_Witness ==
    \E c \in Callers :
        /\ calls[c].kind = "loadCards"
        /\ calls[c].pc = "done"
        /\ calls[c].failed = {FI}
        /\ calls[c].result = 0
        /\ languageData = LoadedStore(calls[c].no)
        /\ Len(Deck(EN)) > 0

C3_DecksStayParallel ==
    [][\A c \in Callers :
          (/\ LoadCardsCommit(c)
           /\ calls[c].failed = {}
           /\ source[FI] = source[EN]) =>
              /\ Len(Deck(FI)') = Len(Deck(EN)')
              /\ \A i \in 1..Len(Deck(FI)') : Deck(FI)'[i].id = Deck(EN)'[i].id]_vars

\* Two parallel decks that a shuffle took out of document order.
C3_Witness ==
    \E c \in Callers :
        /\ calls[c].kind = "loadCards"
        /\ calls[c].pc = "done"
        /\ calls[c].failed = {}
        /\ source[FI] = source[EN]
        /\ languageData = LoadedStore(calls[c].no)
        /\ Len(Deck(FI)) >= 2
        /\ Deck(FI)[1].id > Deck(FI)[2].id
        /\ \A i \in 1..Len(Deck(FI)) : Deck(FI)[i].id = Deck(EN)[i].id

\* C7: the store changes only in the one step in which a call, both of its
\* fetches settled, completes, and a completed call never runs again; the
\* two stored decks are always arrays of the same call; and the store holds
\* the decks of the loadCards call that wrote last.
C7_LoadsWriteOnceAndWhole ==
    /\ [][(languageData' # languageData \/ heap' # heap \/ lastWrite' # lastWrite) =>
             \E c \in Callers :
                 /\ calls[c].pc = "fetching"
                 /\ calls[c].pending = {}
                 /\ calls'[c].pc = "done"
                 /\ lastWrite' = calls[c].no
                 /\ \A d \in Callers \ {c} : calls'[d] = calls[d]]_vars
    /\ [][\A c \in Callers : calls[c].pc = "done" => calls'[c] = calls[c]]_vars
    /\ [](languageData[FI].cards = languageData[EN].cards)
    /\ [](\A c \in Callers :
             (calls[c].kind = "loadCards" /\ calls[c].pc = "done"
              /\ lastWrite = calls[c].no) => languageData = LoadedStore(calls[c].no))

\* Two overlapping loadCards calls completed; the one that started first
\* wrote last, and the store holds its decks.
C7_Witness ==
    \E c, d \in Callers :
        /\ calls[c].kind = "loadCards" /\ calls[c].pc = "done"
        /\ calls[d].kind = "loadCards" /\ calls[d].pc = "done"
        /\ calls[c].no < calls[d].no
        /\ lastWrite = calls[c].no
        /\ languageData = LoadedStore(calls[c].no)
        /\ Len(Deck(FI)) > 0

\* C8: when a loadCards committed between the snapshot and the write-back
\* of a loadSingleCard, the write-back stores the decks of the snapshot,
\* patched at cardIndex, and the decks loadCards committed are no longer in
\* the store.
C8_SnapshotOverwritesLoad ==
    [][\A c, d \in Callers :
          (/\ LoadSingleCardCommit(c)
           /\ calls[d].kind = "loadCards"
           /\ calls[d].pc = "done"
           /\ languageData = LoadedStore(calls[d].no)
           /\ calls[c].currentData # languageData) =>
              \A l \in Languages :
                  /\ languageData'[l].cards = calls[c].currentData[l].cards
                  /\ languageData'[l].cards # calls[d].no
                  /\ calls[c].currentData[l].cards # NoCards =>
                        Deck(l)' = IF Arrived(calls[c], l)
                                   THEN ArrayAssign(SnapshotDeck(calls[c], l),
                                                    calls[c].cardIndex, NewCard(calls[c], l))
                                   ELSE SnapshotDeck(calls[c], l)]_vars

\* A loadCards started and committed while a loadSingleCard was pending; the
\* store holds the restored decks again, the English one patched.
C8_Witness ==
    \E c, d \in Callers :
        /\ calls[c].kind = "loadSingleCard" /\ calls[c].pc = "done"
        /\ calls[d].kind = "loadCards" /\ calls[d].pc = "done"
        /\ calls[c].no < calls[d].no
        /\ lastWrite = calls[c].no
        /\ languageData = LoadedStore(Restored)
        /\ Deck(EN) # RestoredCards[EN]

====
